---- MODULE Spec2Model ----
(***************************************************************************)
(* A model of redrock's redshift pipeline: zfind (py/redrock/zfind.py) and  *)
(* the template discovery and result store of py/redrock/io.py.            *)
(*                                                                         *)
(* Strings that the code splits, formats or parses are sequences of        *)
(* chunks (<<"STAR", ":", "A">> is 'STAR:A'), so that split(':'), the '/'  *)
(* of an HDF5 path and int() act on them as they act on the text.          *)
(* A dict is a function whose DOMAIN is its key set.                       *)
(***************************************************************************)
EXTENDS Integers, Sequences, FiniteSets, TLC

VARIABLES
    \* ---- zfind(targets, templates, ncpu, nminima)
    templates,   \* the list of Template objects passed in
    nminima,     \* minima per spectype to return
    ncpu,        \* worker count (resolved: never None here)
    pc,          \* position in zfind: start, scan, fitz, zall, done, raised
    t,           \* index of the template the loop of line 64 is at
    zscan,       \* zscan[targetid][fulltype] : dict
    scanres,     \* (zchi2, zcoeff, penalty) of the current template
    err,         \* the exception zfind raised, "none" if it has not
    ret,         \* what zfind returned: (zscan, zfit)
    tzall,       \* per target, tzfit as it is after line 122 (before trimming)
    fitzOut,     \* per template scanned so far, what parallel_fitz_targets returned
    scanLog,     \* per template scanned so far, what the chi2-scan engine did
    \* ---- write_zscan(filename, results, clobber) and read_zscan(filename)
    file,        \* the HDF5 file at filename: whether it exists, and its datasets
    spc,         \* idle, written (write_zscan was called), read (then read_zscan)
    wargs,       \* the (results, clobber) write_zscan was called with
    prior,       \* the file as it was when write_zscan was called
    wres,        \* "ok" or the exception write_zscan raised
    rres,        \* what read_zscan returned, or the exception it raised
    \* ---- find_templates(template_dir) and read_templates(None, template_dir)
    fs,          \* the directories: whether each exists, and the files in it
    env,         \* os.environ: RR_TEMPLATE_DIR, or "unset"
    tpc,         \* idle, found (find_templates ran), loaded (read_templates ran)
    targ,        \* the template_dir argument, "None" if not given
    tres         \* what the call returned, or the exception it raised

zfindVars == <<templates, nminima, ncpu, pc, t, zscan, scanres, err, ret,
               tzall, fitzOut, scanLog>>

storeVars == <<file, spc, wargs, prior, wres, rres>>

tplVars == <<fs, env, tpc, targ, tres>>

vars == <<templates, nminima, ncpu, pc, t, zscan, scanres, err, ret,
          tzall, fitzOut, scanLog, file, spc, wargs, prior, wres, rres,
          fs, env, tpc, targ, tres>>

----------------------------------------------------------------------------
(* Bounds and input domains *)

MaxTemplates == 2
MaxMinima == 2

\* The targets of a run; zfind treats every target alike and the loop body of
\* line 95 reads nothing but zscan[target.id].
targets == <<7>>

\* Template objects: fulltype is type or type:subtype, flux stands for the basis
\* (nbasis rows). Two star templates without a subtype share the fulltype STAR,
\* as read_template builds them (Template(rrtype, redshifts, wave, flux)).
TemplateObjs ==
    { [fulltype |-> <<"GALAXY">>,         nbasis |-> 2, flux |-> "galaxy"],
      [fulltype |-> <<"STAR", ":", "A">>, nbasis |-> 1, flux |-> "star-A"],
      [fulltype |-> <<"STAR">>,           nbasis |-> 1, flux |-> "star-1"],
      [fulltype |-> <<"STAR">>,           nbasis |-> 1, flux |-> "star-2"] }

\* Lists of one to MaxTemplates different templates
TemplateLists ==
    UNION { { s \in [1..n -> TemplateObjs] : \A i, j \in 1..n : i # j => s[i] # s[j] }
            : n \in 1..MaxTemplates }

\* Rows the fit-refinement engine can return: chi2 differences of 0, 3, 9 and
\* 12 occur, and a row carrying another zwarn bit (1) occurs on either side
\* of the threshold. No engine row carries the small-delta-chi2 bit.
EngineRows ==
    { [chi2 |-> 0,  zwarn |-> 1],
      [chi2 |-> 3,  zwarn |-> 0],
      [chi2 |-> 12, zwarn |-> 0] }

\* How many rows one engine table has
RowCounts == {1, 2}

Exceptions == {"ValueError", "MemoryError"}

----------------------------------------------------------------------------
(* Helpers *)

Range(s) == { s[i] : i \in DOMAIN s }

EmptyDict == [x \in {} |-> 0]

DictSet(d, key, v) == [x \in (DOMAIN d) \cup {key} |-> IF x = key THEN v ELSE d[x]]

DictDel(d, key) == [x \in (DOMAIN d) \ {key} |-> d[x]]

RECURSIVE SeqSum(_)
SeqSum(s) == IF s = <<>> THEN 0 ELSE Head(s) + SeqSum(Tail(s))

RECURSIVE Concat(_)
Concat(ss) == IF ss = <<>> THEN <<>> ELSE Head(ss) \o Concat(Tail(ss))

Max(S) == CHOOSE x \in S : \A y \in S : y <= x

\* str.count(sep)
Count(s, sep) == Cardinality({ i \in DOMAIN s : s[i] = sep })

\* str.split(sep): the pieces between the separators
RECURSIVE Split(_, _)
Split(s, sep) ==
    IF \A i \in DOMAIN s : s[i] # sep THEN << s >>
    ELSE LET i == CHOOSE j \in DOMAIN s :
                      s[j] = sep /\ \A h \in 1..(j-1) : s[h] # sep
         IN  << SubSeq(s, 1, i-1) >> \o Split(SubSeq(s, i+1, Len(s)), sep)

RECURSIVE BitOr(_, _)
BitOr(a, b) ==
    IF a = 0 THEN b
    ELSE IF b = 0 THEN a
    ELSE (IF a % 2 = 1 \/ b % 2 = 1 THEN 1 ELSE 0) + 2 * BitOr(a \div 2, b \div 2)

HasBit(a, b) == (a \div b) % 2 = 1

----------------------------------------------------------------------------
(* The candidate aggregation of zfind, lines 95-135, for one target *)

\* The chunks np.unique orders spectypes by (ascending text order).
Alphabetical == <<"GALAXY", "QSO", "STAR">>

TextRank(s) == CHOOSE i \in DOMAIN Alphabetical : Alphabetical[i] = s[1]

\* Iteration order of the dict zscan[target.id]: keys in insertion order
\* (line 54 inserts them template by template; a repeated key keeps its place).
RECURSIVE KeyOrder(_)
KeyOrder(tpls) ==
    IF tpls = <<>> THEN <<>>
    ELSE LET r  == KeyOrder(SubSeq(tpls, 1, Len(tpls) - 1))
             ft == tpls[Len(tpls)].fulltype
         IN  IF ft \in Range(r) THEN r ELSE Append(r, ft)

\* lines 100-103: (spectype, subtype) of a fulltype; the two-name unpacking of
\* line 101 needs exactly two pieces.
SplitFulltype(ft) ==
    IF Count(ft, ":") > 0 THEN Split(ft, ":") ELSE << ft, <<>> >>

\* lines 104-105
TagTable(tbl, ft) ==
    [i \in 1..Len(tbl) |->
        [chi2 |-> tbl[i].chi2, zwarn |-> tbl[i].zwarn, coeff |-> tbl[i].coeff,
         spectype |-> SplitFulltype(ft)[1], subtype |-> SplitFulltype(ft)[2]]]

\* lines 109-114: zero-pad coeff on the right to the widest table's width
PadCoeff(tbl, maxncoeff) ==
    [i \in 1..Len(tbl) |->
        [tbl[i] EXCEPT !.coeff =
            tbl[i].coeff \o [j \in 1..(maxncoeff - Len(tbl[i].coeff)) |-> 0]]]

\* Table.sort('chi2'): ascending; tables this short are insertion-sorted, which
\* keeps tied rows in their order.
RECURSIVE InsertByChi2(_, _)
InsertByChi2(row, s) ==
    IF s = <<>> THEN << row >>
    ELSE IF row.chi2 < Head(s).chi2 THEN << row >> \o s
    ELSE << Head(s) >> \o InsertByChi2(row, Tail(s))

RECURSIVE SortByChi2(_)
SortByChi2(s) ==
    IF s = <<>> THEN <<>>
    ELSE InsertByChi2(s[Len(s)], SortByChi2(SubSeq(s, 1, Len(s) - 1)))

\* np.ediff1d(chi2, to_end=0.0)
Ediff1d(tz) ==
    [i \in 1..Len(tz) |-> IF i < Len(tz) THEN tz[i+1].chi2 - tz[i].chi2 ELSE 0]

SMALL_DELTA_CHI2 == 4

DeltaChi2Threshold == 9

\* FlagSmallDeltaChi2 with the threshold compared by <=
FlagDeltaChi2AtMost(tz) ==
    [i \in 1..Len(tz) |->
        IF tz[i].deltachi2 <= DeltaChi2Threshold
        THEN [tz[i] EXCEPT !.zwarn = BitOr(tz[i].zwarn, SMALL_DELTA_CHI2)]
        ELSE tz[i]]

\* lines 121-122
FlagSmallDeltaChi2(tz) ==
    [i \in 1..Len(tz) |->
        IF tz[i].deltachi2 < DeltaChi2Threshold
        THEN [tz[i] EXCEPT !.zwarn = BitOr(tz[i].zwarn, SMALL_DELTA_CHI2)]
        ELSE tz[i]]

\* lines 116-122: vstack, sort, targetid, znum, deltachi2, zwarn
Rank(tables, tid) ==
    LET st == SortByChi2(Concat(tables))
        d  == Ediff1d(st)
    IN  FlagSmallDeltaChi2(
            [i \in 1..Len(st) |->
                [chi2 |-> st[i].chi2, zwarn |-> st[i].zwarn, coeff |-> st[i].coeff,
                 spectype |-> st[i].spectype, subtype |-> st[i].subtype,
                 targetid |-> tid, znum |-> i - 1, deltachi2 |-> d[i]]])

\* np.where(tzfit['spectype'] == spectype)[0], from index i on
RECURSIVE Where(_, _, _)
Where(tz, spectype, i) ==
    IF i > Len(tz) THEN <<>>
    ELSE (IF tz[i].spectype = spectype THEN << i >> ELSE <<>>)
         \o Where(tz, spectype, i + 1)

\* np.unique(tzfit['spectype']): the distinct spectypes in ascending text order
RECURSIVE UniqueSorted(_)
UniqueSorted(S) ==
    IF S = {} THEN <<>>
    ELSE LET m == CHOOSE x \in S : \A y \in S : TextRank(x) <= TextRank(y)
         IN  << m >> \o UniqueSorted(S \ {m})

\* FirstN taking ii[-n:], the n highest chi2 of the group
LastN(ii, n) == SubSeq(ii, IF n < Len(ii) THEN Len(ii) - n + 1 ELSE 1, Len(ii))

\* ii[0:nminima]
FirstN(ii, n) == SubSeq(ii, 1, IF n < Len(ii) THEN n ELSE Len(ii))

\* lines 126-129
IiKeep(tz, n) ==
    LET types == UniqueSorted({ tz[i].spectype : i \in 1..Len(tz) })
    IN  Concat([g \in 1..Len(types) |-> FirstN(Where(tz, types[g], 1), n)])

\* lines 126-133
Trim(tz, n) ==
    LET iikeep == IiKeep(tz, n)
    IN  IF Len(iikeep) < Len(tz)
        THEN SortByChi2([j \in 1..Len(iikeep) |-> tz[iikeep[j]]])
        ELSE tz

\* line 98 for every key of zscan[target.id]: a slot without 'zfit' is a KeyError
MissingZfit(zs) == \E ft \in DOMAIN zs : "zfit" \notin DOMAIN zs[ft]

\* lines 96-114: the tagged, padded tables of one target, in dict order
Collect(zs, order) ==
    LET tagged == [g \in 1..Len(order) |-> TagTable(zs[order[g]]["zfit"], order[g])]
        maxncoeff == Max(UNION { { Len(tagged[g][i].coeff) : i \in 1..Len(tagged[g]) }
                                 : g \in 1..Len(tagged) })
    IN  [g \in 1..Len(tagged) |-> PadCoeff(tagged[g], maxncoeff)]

\* line 107 for every key
DropZfit(zs) == [ft \in DOMAIN zs |-> DictDel(zs[ft], "zfit")]

----------------------------------------------------------------------------
(* The external engines, as zfind sees them *)

\* redrock.zscan.calc_zchi2_targets either returns or raises.
ScanOutcomes == {"ok"} \cup Exceptions

\* WrapCalcZchi2 without its final raise: the exception is printed and dropped
WrapCalcZchi2NoRaise(raw) == "ok"

\* _wrap_calc_zchi2: the engine's result, or the engine's exception raised again
WrapCalcZchi2(raw) == raw

\* redrock.zscan.parallel_calc_zchi2_targets: the workers run the wrapped call
ParallelCalcZchi2Targets(raw) == WrapCalcZchi2(raw)

\* lines 68-71: which engine entry point runs
ScanCall(raw, n) == IF n > 1 THEN ParallelCalcZchi2Targets(raw) ELSE raw

\* (zchi2, zcoeff, penalty) of template number k: one entry per target
ScanArrays(k) ==
    [zchi2   |-> [i \in 1..Len(targets) |-> <<"zchi2", k, i>>],
     zcoeff  |-> [i \in 1..Len(targets) |-> <<"zcoeff", k, i>>],
     penalty |-> [i \in 1..Len(targets) |-> <<"penalty", k, i>>]]

NoScan == [zchi2 |-> <<>>, zcoeff |-> <<>>, penalty |-> <<>>]

NoReturn == [returned |-> FALSE, zscan |-> EmptyDict, zfit |-> <<>>]

\* A candidate table of the fit-refinement engine for one (target, template):
\* a number of rows in `counts', each with a coeff vector as wide as the template's basis.
\* zfind hands nminima to the engine and reads back whatever table it returns,
\* so a table is not assumed to stop at nminima rows. Rows are listed by
\* ascending chi2: zfind sorts the merged table, so the order inside one engine
\* table changes nothing zfind computes.
FitzTables(tpl, counts) ==
    UNION { { [i \in 1..m |-> [chi2 |-> s[i].chi2, zwarn |-> s[i].zwarn,
                               coeff |-> [j \in 1..tpl.nbasis |-> 1]]]
              : s \in { u \in [1..m -> EngineRows] :
                          \A i \in 1..(m-1) : u[i].chi2 <= u[i+1].chi2 } }
            : m \in counts }

\* What parallel_fitz_targets yields: a table for each of the first m targets.
FitzResults(tpl, counts) ==
    UNION { [1..m -> FitzTables(tpl, counts)] : m \in 0..Len(targets) }

----------------------------------------------------------------------------
(* Template discovery of io.py *)

InstallDir == "/pkg/redrock/templates"

Dirs == {"/data/templates", "/env/templates", InstallDir}

\* File names, in three pieces; find_templates globs 'rrtemplate-*.fits'
FileNames ==
    { <<"rrtemplate-", "galaxy", ".fits">>, <<"redrock-", "star", ".fits">> }

GlobMatches(name) == name[1] = "rrtemplate-" /\ name[Len(name)] = ".fits"

NoDir == [exists |-> FALSE, files |-> {}]

DirStates == {NoDir} \cup { [exists |-> TRUE, files |-> F] : F \in SUBSET FileNames }

NoResult == [status |-> "none", files |-> {}]

TemplatesIdle ==
    /\ fs = [d \in Dirs |-> NoDir]
    /\ env = "unset"
    /\ tpc = "idle"
    /\ targ = "None"
    /\ tres = NoResult

\* EnvFirstDir: ResolveDir with $RR_TEMPLATE_DIR taking precedence over the argument
EnvFirstDir(arg, e, dirs) ==
    IF e # "unset" THEN e
    ELSE IF arg # "None" THEN arg
    ELSE IF dirs[InstallDir].exists THEN InstallDir
    ELSE "None"

\* lines 83-90: the directory find_templates settles on
ResolveDir(arg, e, dirs) ==
    IF arg # "None" THEN arg
    ELSE IF e # "unset" THEN e
    ELSE IF dirs[InstallDir].exists THEN InstallDir
    ELSE "None"

\* glob(os.path.join(template_dir, 'rrtemplate-*.fits')): the matching files of
\* the directory, none if it does not exist
Glob(dir, dirs) ==
    IF dirs[dir].exists
    THEN { <<dir, name>> : name \in { n \in dirs[dir].files : GlobMatches(n) } }
    ELSE {}

\* lines 83-95
FindTemplatesResult(arg, e, dirs) ==
    LET dir == ResolveDir(arg, e, dirs)
    IN  IF dir = "None" THEN [status |-> "IOError", files |-> {}]
        ELSE [status |-> "ok", files |-> Glob(dir, dirs)]

\* lines 104-117 with template_list=None: every file found is read; an empty
\* list of templates is an IOError
ReadTemplatesResult(arg, e, dirs) ==
    LET found == FindTemplatesResult(arg, e, dirs)
    IN  IF found.status # "ok" THEN found
        ELSE IF found.files = {} THEN [status |-> "IOError", files |-> {}]
        ELSE found

TemplatesInit ==
    /\ fs \in [Dirs -> DirStates]
    /\ env \in {"unset", "/env/templates"}
    /\ tpc = "idle"
    /\ targ = "None"
    /\ tres = NoResult

FindTemplates ==
    /\ tpc = "idle"
    /\ \E arg \in {"None", "/data/templates"} :
        /\ targ' = arg
        /\ tres' = FindTemplatesResult(arg, env, fs)
    /\ tpc' = "found"
    /\ UNCHANGED <<fs, env>>
    /\ UNCHANGED <<zfindVars, storeVars>>

ReadTemplates ==
    /\ tpc = "idle"
    /\ \E arg \in {"None", "/data/templates"} :
        /\ targ' = arg
        /\ tres' = ReadTemplatesResult(arg, env, fs)
    /\ tpc' = "loaded"
    /\ UNCHANGED <<fs, env>>
    /\ UNCHANGED <<zfindVars, storeVars>>

----------------------------------------------------------------------------
(* The result store of io.py: an HDF5 file is the function from the paths of *)
(* its datasets to their values; a path is the sequence of its names, and   *)
(* every proper prefix of a dataset's path is a group.                      *)

NoFile == [exists |-> FALSE, nodes |-> EmptyDict]

NoArgs == [results |-> EmptyDict, clobber |-> FALSE]

NoRead == [status |-> "none", zbest |-> {}, results |-> EmptyDict]

StoreIdle ==
    /\ file = NoFile
    /\ spc = "idle"
    /\ wargs = NoArgs
    /\ prior = NoFile
    /\ wres = "none"
    /\ rres = NoRead

Digits == <<"0", "1", "2", "3", "4", "5", "6", "7", "8", "9">>

\* '{}'.format(n) of an int n >= 0: its decimal digits
RECURSIVE FormatInt(_)
FormatInt(n) ==
    IF n < 10 THEN << Digits[n + 1] >>
    ELSE FormatInt(n \div 10) \o << Digits[(n % 10) + 1] >>

IsDigit(c) == \E d \in DOMAIN Digits : Digits[d] = c

DigitValue(c) == (CHOOSE d \in DOMAIN Digits : Digits[d] = c) - 1

\* int(text) accepts a run of digits
IsIntText(s) == Len(s) > 0 /\ \A i \in DOMAIN s : IsDigit(s[i])

RECURSIVE ParseInt(_)
ParseInt(s) ==
    IF Len(s) = 1 THEN DigitValue(s[1])
    ELSE 10 * ParseInt(SubSeq(s, 1, Len(s) - 1)) + DigitValue(s[Len(s)])

\* DatasetName with ttype and key handed to format() in the other order
DatasetNameSwapped(targetid, ttype, key) ==
    <<"targets", "/">> \o FormatInt(targetid) \o <<"/">> \o key \o <<"/">> \o ttype

\* line 141: 'targets/{}/{}/{}'.format(targetid, ttype, key)
DatasetName(targetid, ttype, key) ==
    <<"targets", "/">> \o FormatInt(targetid) \o <<"/">> \o ttype \o <<"/">> \o key

\* The path an HDF5 name denotes: its names between the '/'; empty names drop out
H5Path(name) == SelectSeq(Split(name, "/"), LAMBDA seg : seg # <<>>)

IsPrefix(p, q) == Len(p) <= Len(q) /\ SubSeq(q, 1, Len(p)) = p

IsGroup(nodes, p) == \E q \in DOMAIN nodes : IsPrefix(p, q) /\ p # q

\* The names directly under group p
Children(nodes, p) ==
    { q[Len(p) + 1] : q \in { r \in DOMAIN nodes : IsPrefix(p, r) /\ p # r } }

\* fx[name] = value creates a dataset: the name must be free, and every name
\* above it a group or free
CanCreate(nodes, p) ==
    /\ p \notin DOMAIN nodes
    /\ ~ IsGroup(nodes, p)
    /\ \A n \in 1..(Len(p) - 1) : SubSeq(p, 1, n) \notin DOMAIN nodes

\* find_zbest(results): one summary row per target id
FindZbest(results) == DOMAIN results

ZbestPath == << <<"zbest">> >>

\* The (targetid, ttype, key) triples the loops of lines 138-140 visit, in
\* some order of the dicts
Triples(results) ==
    UNION { UNION { { <<tid, tt, key>> : key \in DOMAIN results[tid][tt] }
                    : tt \in DOMAIN results[tid] }
            : tid \in DOMAIN results }

RECURSIVE SetToSeq(_)
SetToSeq(S) ==
    IF S = {} THEN <<>>
    ELSE LET e == CHOOSE x \in S : TRUE IN << e >> \o SetToSeq(S \ {e})

\* lines 138-142 from the i-th triple on: each assignment creates a dataset or
\* raises, which ends the loop with what was written so far
RECURSIVE AssignAll(_, _, _, _)
AssignAll(nodes, results, todo, i) ==
    IF i > Len(todo) THEN [status |-> "ok", nodes |-> nodes]
    ELSE LET p == H5Path(DatasetName(todo[i][1], todo[i][2], todo[i][3]))
             v == results[todo[i][1]][todo[i][2]][todo[i][3]]
         IN  IF CanCreate(nodes, p)
             THEN AssignAll(DictSet(nodes, p, v), results, todo, i + 1)
             ELSE [status |-> "RuntimeError", nodes |-> nodes]

\* lines 131-132
Clobbered(f, clobber) == IF clobber /\ f.exists THEN NoFile ELSE f

\* TableWriteRefused as if line 135 passed append=True: the file is added to
TableWriteAppends(f) == FALSE

\* line 135, zbest.write(filename, path='zbest', format='hdf5'): astropy's
\* HDF5 writer, given neither overwrite nor append, refuses a file that exists
TableWriteRefused(f) == f.exists

\* lines 131-143
WriteZscanResult(f, results, clobber) ==
    LET f1 == Clobbered(f, clobber)
    IN  IF TableWriteRefused(f1)
        THEN [status |-> "IOError", file |-> f1]
        ELSE LET r == AssignAll(DictSet(f1.nodes, ZbestPath, FindZbest(results)),
                                results, SetToSeq(Triples(results)), 1)
             IN  [status |-> r.status, file |-> [exists |-> TRUE, nodes |-> r.nodes]]

\* lines 160-172
ReadZscanResult(f) ==
    LET top == << <<"targets">> >>
        failed(e) == [status |-> e, zbest |-> {}, results |-> EmptyDict]
    IN  IF ~ f.exists \/ ZbestPath \notin DOMAIN f.nodes THEN failed("IOError")
        ELSE IF ~ IsGroup(f.nodes, top) THEN failed("KeyError")
        ELSE IF \E tid \in Children(f.nodes, top) : ~ IsIntText(tid)
             THEN failed("ValueError")
        ELSE IF \E tid \in Children(f.nodes, top) :
                  \E tt \in Children(f.nodes, top \o <<tid>>) :
                      \E d \in Children(f.nodes, top \o <<tid, tt>>) :
                          top \o <<tid, tt, d>> \notin DOMAIN f.nodes
             THEN failed("AttributeError")
        ELSE [status |-> "ok",
              zbest |-> f.nodes[ZbestPath],
              results |->
                [n \in { ParseInt(tid) : tid \in Children(f.nodes, top) } |->
                    LET tid == CHOOSE x \in Children(f.nodes, top) : ParseInt(x) = n
                    IN  [tt \in Children(f.nodes, top \o <<tid>>) |->
                            [d \in Children(f.nodes, top \o <<tid, tt>>) |->
                                f.nodes[top \o <<tid, tt, d>>]]]]]

(* Inputs of the store *)

TargetIds == {7, 12}

TTypes == { <<"GALAXY">>, <<"STAR", ":", "A">>, <<"QSO", "/", "LOZ">> }

Fields == { <<"zchi2">> }

Arrays == { <<0, 5>>, <<1, 5>> }

PartialFns(D, R) == UNION { [S -> R] : S \in SUBSET D }

\* The nested results structures: targetid -> templatetype -> field -> array
ResultsDomain ==
    PartialFns(TargetIds, PartialFns(TTypes, PartialFns(Fields, Arrays)))

\* A file left by an earlier run, with a dataset no later write names
OldFile ==
    [exists |-> TRUE,
     nodes |-> DictSet(DictSet(DictSet(EmptyDict,
                  ZbestPath, {7}),
                  << <<"targets">>, <<"7">>, <<"GALAXY">>, <<"zchi2">> >>, <<9, 9>>),
                  << <<"notes">> >>, <<4>>)]

StoreInit ==
    /\ file \in {NoFile, OldFile}
    /\ spc = "idle"
    /\ wargs = NoArgs
    /\ prior = NoFile
    /\ wres = "none"
    /\ rres = NoRead

WriteZscan ==
    /\ spc = "idle"
    /\ \E results \in ResultsDomain, clobber \in BOOLEAN :
        LET r == WriteZscanResult(file, results, clobber)
        IN  /\ wargs' = [results |-> results, clobber |-> clobber]
            /\ prior' = file
            /\ file' = r.file
            /\ wres' = r.status
    /\ spc' = "written"
    /\ rres' = rres
    /\ UNCHANGED <<zfindVars, tplVars>>

ReadZscan ==
    /\ spc = "written"
    /\ rres' = ReadZscanResult(file)
    /\ spc' = "read"
    /\ UNCHANGED <<file, wargs, prior, wres>>
    /\ UNCHANGED <<zfindVars, tplVars>>

ZfindIdle ==
    /\ templates = <<>>
    /\ nminima = 1
    /\ ncpu = 1
    /\ pc = "idle"
    /\ t = 0
    /\ zscan = EmptyDict
    /\ scanres = NoScan
    /\ err = "none"
    /\ ret = NoReturn
    /\ tzall = EmptyDict
    /\ fitzOut = <<>>
    /\ scanLog = <<>>

SpecStoreInit == StoreInit /\ ZfindIdle /\ TemplatesIdle

SpecStoreNext == WriteZscan \/ ReadZscan

SpecStore == SpecStoreInit /\ [][SpecStoreNext]_vars

SpecTemplatesInit == TemplatesInit /\ ZfindIdle /\ StoreIdle

SpecTemplatesNext == FindTemplates \/ ReadTemplates

SpecTemplates == SpecTemplatesInit /\ [][SpecTemplatesNext]_vars

----------------------------------------------------------------------------
(* zfind *)

Init ==
    /\ templates \in TemplateLists
    /\ nminima \in 1..MaxMinima
    /\ ncpu \in {1, 2}
    /\ pc = "start"
    /\ t = 0
    /\ zscan = EmptyDict
    /\ scanres = NoScan
    /\ err = "none"
    /\ ret = NoReturn
    /\ tzall = EmptyDict
    /\ fitzOut = <<>>
    /\ scanLog = <<>>
    /\ StoreIdle
    /\ TemplatesIdle

\* EmptySlots with the inner loop run for the first template only
EmptySlotsFirstOnly(tgts, tpls) ==
    [tid \in Range(tgts) |-> [ft \in { tpls[1].fulltype } |-> EmptyDict]]

\* lines 50-54
EmptySlots(tgts, tpls) ==
    [tid \in Range(tgts) |->
        [ft \in { tpls[i].fulltype : i \in 1..Len(tpls) } |-> EmptyDict]]

InitSlots ==
    /\ pc = "start"
    /\ zscan' = EmptySlots(targets, templates)
    /\ t' = 1
    /\ pc' = "scan"
    /\ UNCHANGED <<templates, nminima, ncpu, scanres, err, ret, tzall, fitzOut, scanLog>>
    /\ UNCHANGED <<storeVars, tplVars>>

\* lines 64-73: the chi2 scan of template t; an exception leaves zfind
Scan ==
    /\ pc = "scan"
    /\ \E raw \in ScanOutcomes :
        LET outcome == ScanCall(raw, ncpu)
        IN  /\ scanLog' = Append(scanLog, raw)
            /\ IF outcome = "ok"
               THEN /\ scanres' = ScanArrays(t)
                    /\ pc' = "fitz"
                    /\ err' = err
               ELSE /\ scanres' = scanres
                    /\ pc' = "raised"
                    /\ err' = outcome
    /\ UNCHANGED <<templates, nminima, ncpu, t, zscan, ret, tzall, fitzOut>>
    /\ UNCHANGED <<storeVars, tplVars>>

\* lines 77-80: zfit of the targets the engine yielded a table for
StoreZfit(zs, res, ft) ==
    [tid \in DOMAIN zs |->
        IF \E i \in 1..Len(res) : targets[i] = tid
        THEN LET i == CHOOSE j \in 1..Len(res) : targets[j] = tid
             IN  [zs[tid] EXCEPT ![ft] = DictSet(@, "zfit", res[i])]
        ELSE zs[tid]]

\* lines 82-86
StoreScan(zs, sr, tpl) ==
    [tid \in DOMAIN zs |->
        LET i == CHOOSE j \in 1..Len(targets) : targets[j] = tid
        IN  [zs[tid] EXCEPT ![tpl.fulltype] =
                DictSet(DictSet(DictSet(DictSet(@,
                    "redshifts", <<"redshifts", tpl.fulltype>>),
                    "zchi2", sr.zchi2[i]),
                    "penalty", sr.penalty[i]),
                    "zcoeff", sr.zcoeff[i])]]

\* lines 75-88, then the loop of line 64 goes on or ends
Fitz ==
    /\ pc = "fitz"
    /\ \E res \in FitzResults(templates[t], RowCounts) :
        /\ zscan' = StoreScan(StoreZfit(zscan, res, templates[t].fulltype),
                              scanres, templates[t])
        /\ fitzOut' = Append(fitzOut, res)
    /\ scanres' = NoScan
    /\ t' = t + 1
    /\ pc' = IF t < Len(templates) THEN "scan" ELSE "zall"
    /\ UNCHANGED <<templates, nminima, ncpu, err, ret, tzall, scanLog>>
    /\ UNCHANGED <<storeVars, tplVars>>

\* parallel_fitz_targets raises: nothing catches it
FitzRaise ==
    /\ pc = "fitz"
    /\ \E e \in Exceptions : err' = e
    /\ pc' = "raised"
    /\ UNCHANGED <<templates, nminima, ncpu, t, zscan, scanres, ret, tzall,
                   fitzOut, scanLog>>
    /\ UNCHANGED <<storeVars, tplVars>>

\* lines 95-122 for one target
Merged(zs, tid) == Rank(Collect(zs, KeyOrder(templates)), tid)

\* lines 90-141
MakeZall ==
    /\ pc = "zall"
    /\ IF \E tid \in Range(targets) : MissingZfit(zscan[tid])
       THEN /\ err' = "KeyError"
            /\ pc' = "raised"
            /\ UNCHANGED <<zscan, ret, tzall>>
       ELSE /\ tzall' = [tid \in Range(targets) |-> Merged(zscan[tid], tid)]
            /\ zscan' = [tid \in Range(targets) |-> DropZfit(zscan[tid])]
            /\ ret' = [returned |-> TRUE,
                       zscan |-> zscan',
                       zfit |-> Concat([i \in 1..Len(targets) |->
                                    Trim(tzall'[targets[i]], nminima)])]
            /\ pc' = "done"
            /\ err' = err
    /\ UNCHANGED <<templates, nminima, ncpu, t, scanres, fitzOut, scanLog>>
    /\ UNCHANGED <<storeVars, tplVars>>

Next == InitSlots \/ Scan \/ Fitz \/ FitzRaise \/ MakeZall

Spec == Init /\ [][Next]_vars

----------------------------------------------------------------------------
(* Properties of zfind *)

Done == pc = "done"

\* The rows of the returned table that belong to one target
TableOf(tid) == SelectSeq(ret.zfit, LAMBDA r : r.targetid = tid)

Idx(tid) == CHOOSE i \in 1..Len(targets) : targets[i] = tid

\* The tables the fit-refinement engine returned for a target, by template number
EngineTables(tid) ==
    [k \in { j \in 1..Len(fitzOut) : Idx(tid) <= Len(fitzOut[j]) } |->
        fitzOut[k][Idx(tid)]]

EngineChi2s(tid) ==
    UNION { { EngineTables(tid)[k][r].chi2 : r \in 1..Len(EngineTables(tid)[k]) }
            : k \in DOMAIN EngineTables(tid) }

\* The engine returned at most nminima rows per (target, template)
EngineKeptToNminima ==
    \A k \in 1..Len(fitzOut) : \A i \in 1..Len(fitzOut[k]) :
        Len(fitzOut[k][i]) <= nminima

SortedByChi2(tb) == \A i \in 1..(Len(tb) - 1) : tb[i].chi2 <= tb[i+1].chi2

CountRows(tb, P(_)) == Cardinality({ i \in 1..Len(tb) : P(tb[i]) })

Spectypes(tb) == { tb[i].spectype : i \in 1..Len(tb) }

\* C1: for every target, the table zfind returns is sorted ascending by chi2 and
\* its row 0 has the smallest chi2 of all candidate rows that the templates of
\* the list contributed for that target (the engine keeping to nminima rows
\* per table).
C1_SortedAndBestFirst ==
    (Done /\ EngineKeptToNminima) => \A tid \in Range(targets) :
        /\ SortedByChi2(TableOf(tid))
        /\ Len(TableOf(tid)) > 0
        /\ \A c \in EngineChi2s(tid) : TableOf(tid)[1].chi2 <= c

\* C2: in the table zfind returns, deltachi2 of every row but the last is the
\* chi2 of the next row of that table minus the row's own chi2, and deltachi2 of
\* the last row is 0 (the engine keeping to nminima rows per table).
C2_DeltaChi2IsForwardDifference ==
    (Done /\ EngineKeptToNminima) => \A tid \in Range(targets) :
        LET tb == TableOf(tid)
        IN  \A i \in 1..Len(tb) :
                tb[i].deltachi2 = IF i < Len(tb) THEN tb[i+1].chi2 - tb[i].chi2 ELSE 0

\* C3: for every target and every spectype of its merged table, the returned
\* table holds exactly min(nminima, rows of that spectype) rows of the spectype,
\* all of them rows of the merged table, none with a higher chi2 than a
\* discarded row of the spectype; so the returned table has at most nminima
\* rows per distinct spectype scanned.
C3_TrimKeepsLowestPerSpectype ==
    Done => \A tid \in Range(targets) :
        LET tz  == tzall[tid]
            out == TableOf(tid)
            scanned == { SplitFulltype(templates[k].fulltype)[1] : k \in 1..Len(templates) }
        IN  /\ \A i \in 1..Len(out) : \E j \in 1..Len(tz) : out[i] = tz[j]
            /\ \A i, j \in 1..Len(out) : i # j => out[i] # out[j]
            /\ \A ty \in Spectypes(tz) :
                LET all  == { j \in 1..Len(tz) : tz[j].spectype = ty }
                    kept == { j \in all : \E i \in 1..Len(out) : out[i] = tz[j] }
                IN  /\ Cardinality(kept) =
                          (IF nminima < Cardinality(all) THEN nminima ELSE Cardinality(all))
                    /\ \A j \in kept : \A h \in all \ kept : tz[j].chi2 <= tz[h].chi2
            /\ Len(out) <= nminima * Cardinality(scanned)

\* a run in which trimming discarded a row of one spectype and kept all of another
C3_Witness ==
    /\ Done
    /\ Len(TableOf(7)) < Len(tzall[7])
    /\ Cardinality(Spectypes(TableOf(7))) = 2

\* C4: on every row of the merged table (and of the returned table) the
\* small-delta-chi2 bit of zwarn is set exactly when the row's deltachi2 is
\* below 9, the engine's rows carrying no such bit; the other bits are those of
\* an engine row of the same template type and chi2.
C4_SmallDeltaChi2Flag ==
    Done => \A tid \in Range(targets) :
        LET check(tb) ==
              \A i \in 1..Len(tb) :
                /\ HasBit(tb[i].zwarn, SMALL_DELTA_CHI2) <=> (tb[i].deltachi2 < 9)
                /\ \E k \in DOMAIN EngineTables(tid) :
                     /\ SplitFulltype(templates[k].fulltype)
                            = << tb[i].spectype, tb[i].subtype >>
                     /\ \E r \in 1..Len(EngineTables(tid)[k]) :
                          LET e == EngineTables(tid)[k][r]
                          IN  /\ ~ HasBit(e.zwarn, SMALL_DELTA_CHI2)
                              /\ e.chi2 = tb[i].chi2
                              /\ tb[i].zwarn \in { e.zwarn, e.zwarn + SMALL_DELTA_CHI2 }
        IN  check(tzall[tid]) /\ check(TableOf(tid))

\* a merged table with a flagged and an unflagged row that both carry bit 1,
\* the unflagged one not the last row
C4_Witness ==
    /\ Done
    /\ \E i, j \in 1..Len(tzall[7]) :
        /\ tzall[7][i].zwarn = 1 + SMALL_DELTA_CHI2
        /\ tzall[7][j].zwarn = 1
        /\ tzall[7][j].deltachi2 >= 9

\* C5: once the chi2-scan engine (or a worker of it) raises for a template,
\* zfind has raised that same exception, has returned nothing, and scans and
\* fits no further template.
C5_ScanFailureAborts ==
    \A i \in 1..Len(scanLog) :
        scanLog[i] # "ok" =>
            /\ i = Len(scanLog)
            /\ pc = "raised"
            /\ err = scanLog[i]
            /\ ret = NoReturn
            /\ Len(fitzOut) = i - 1

\* a worker of the parallel scan raised for the second template
C5_Witness ==
    /\ ncpu > 1
    /\ Len(scanLog) = 2
    /\ scanLog[1] = "ok"
    /\ scanLog[2] = "MemoryError"
    /\ Len(templates) = 2

\* Some slot of a target got no table from the fit-refinement engine for any
\* template of its fulltype
OmittedSlot ==
    \E tid \in Range(targets) : \E ft \in { templates[k].fulltype : k \in 1..Len(templates) } :
        \A k \in 1..Len(fitzOut) :
            templates[k].fulltype = ft => Idx(tid) > Len(fitzOut[k])

SlotsPresent ==
    \A tid \in Range(targets) : \A k \in 1..Len(templates) :
        /\ tid \in DOMAIN zscan
        /\ templates[k].fulltype \in DOMAIN zscan[tid]

\* C6 as written: every (target, template) pair has a slot from before the
\* first scan on, and a slot the fit-refinement engine gave no table for does
\* not make zfind raise: only an engine's own exception ends the run.
C6_AbsentZfitTolerated ==
    /\ pc # "start" => SlotsPresent
    /\ pc = "raised" => err \in Exceptions

\* C6 amended: every (target, template) pair has a slot from before the first
\* scan on; a slot the fit-refinement engine gave no table for makes zfind
\* raise KeyError once every template is scanned and fitted, with nothing
\* returned, and zfind completes only when no slot lacks its table.
C6_AbsentZfitIsKeyError ==
    /\ pc # "start" => SlotsPresent
    /\ pc = "scan" /\ t = 1 => \A tid \in Range(targets) :
           \A ft \in DOMAIN zscan[tid] : zscan[tid][ft] = EmptyDict
    /\ Done => ~ OmittedSlot
    /\ err = "KeyError" <=>
           (pc = "raised" /\ OmittedSlot /\ Len(fitzOut) = Len(templates))
    /\ err = "KeyError" => ret = NoReturn

\* the engine gave a table for the first template and none for the second
C6_Witness ==
    /\ err = "KeyError"
    /\ Len(fitzOut) = 2
    /\ Len(fitzOut[1]) = 1
    /\ Len(fitzOut[2]) = 0

\* C10: for every target, the merged table holds, for every template type and
\* chi2, as many rows as the engine returned for the templates of that type
\* in the list: no template's table is lost or replaced (the engine keeping to
\* nminima rows per table).
C10_EveryTemplateMerged ==
    (Done /\ EngineKeptToNminima) => \A tid \in Range(targets) : \A k \in DOMAIN EngineTables(tid) :
        \A c \in EngineChi2s(tid) :
            LET ft == templates[k].fulltype
                same == { j \in DOMAIN EngineTables(tid) : templates[j].fulltype = ft }
                given == [j \in same |->
                            CountRows(EngineTables(tid)[j], LAMBDA r : r.chi2 = c)]
                total[S \in SUBSET same] ==
                    IF S = {} THEN 0
                    ELSE LET j == CHOOSE x \in S : TRUE IN given[j] + total[S \ {j}]
            IN  CountRows(tzall[tid],
                          LAMBDA r : /\ r.chi2 = c
                                     /\ << r.spectype, r.subtype >> = SplitFulltype(ft))
                = total[same]

----------------------------------------------------------------------------
(* Properties of the result store *)

\* write_zscan found no file in its way: none existed, or clobber removed it
WroteAfresh == spc # "idle" /\ (~ prior.exists \/ wargs.clobber)

WroteOverExisting == spc # "idle" /\ prior.exists /\ ~ wargs.clobber

WrittenPaths(results) ==
    { H5Path(DatasetName(tr[1], tr[2], tr[3])) : tr \in Triples(results) }

\* C7 as written: write_zscan without clobber on a destination that exists
\* succeeds; the summary table and every dataset path it writes hold the new
\* values, and every other path of the file is as it was.
C7_NoClobberUpdatesInPlace ==
    WroteOverExisting =>
        /\ wres = "ok"
        /\ file.exists
        /\ file.nodes[ZbestPath] = FindZbest(wargs.results)
        /\ \A tr \in Triples(wargs.results) :
               file.nodes[H5Path(DatasetName(tr[1], tr[2], tr[3]))]
                   = wargs.results[tr[1]][tr[2]][tr[3]]
        /\ \A q \in DOMAIN prior.nodes :
               (q # ZbestPath /\ q \notin WrittenPaths(wargs.results))
                   => (q \in DOMAIN file.nodes /\ file.nodes[q] = prior.nodes[q])

\* C7 amended: write_zscan without clobber on a destination that exists raises
\* an I/O error and leaves the whole file as it was; with clobber the old
\* content is gone and the write starts from an empty file.
C7_NoClobberOnExistingRefused ==
    /\ WroteOverExisting => (wres = "IOError" /\ file = prior)
    /\ (spc # "idle" /\ prior.exists /\ wargs.clobber) =>
           (wres # "IOError" /\ << <<"notes">> >> \notin DOMAIN file.nodes)

\* write_zscan without clobber met a file holding a dataset it was to write
C7_Witness ==
    /\ WroteOverExisting
    /\ << <<"targets">>, <<"7">>, <<"GALAXY">>, <<"zchi2">> >> \in DOMAIN prior.nodes
    /\ 7 \in DOMAIN wargs.results
    /\ <<"GALAXY">> \in DOMAIN wargs.results[7]
    /\ <<"zchi2">> \in DOMAIN wargs.results[7][<<"GALAXY">>]
    /\ wargs.results[7][<<"GALAXY">>][<<"zchi2">>] = <<0, 5>>

EveryLevelFilled(x) ==
    /\ DOMAIN x # {}
    /\ \A tid \in DOMAIN x :
        /\ DOMAIN x[tid] # {}
        /\ \A tt \in DOMAIN x[tid] :
            /\ Count(tt, "/") = 0
            /\ DOMAIN x[tid][tt] # {}
            /\ \A key \in DOMAIN x[tid][tt] : Count(key, "/") = 0

----------------------------------------------------------------------------
(* Properties of template discovery *)

Found == tpc = "found"

\* The files of a directory that the glob pattern matches
Matching(dir) ==
    IF fs[dir].exists
    THEN { <<dir, n>> : n \in { m \in fs[dir].files : GlobMatches(m) } }
    ELSE {}

NothingResolves == targ = "None" /\ env = "unset" /\ ~ fs[InstallDir].exists

\* The argument first, then $RR_TEMPLATE_DIR, then the installation's templates/
SearchedInOrder ==
    /\ targ # "None" => tres.files = Matching(targ)
    /\ (targ = "None" /\ env # "unset") => tres.files = Matching(env)
    /\ (targ = "None" /\ env = "unset" /\ fs[InstallDir].exists)
           => tres.files = Matching(InstallDir)

\* C9 as written: find_templates searches the argument, then the environment
\* variable, then the installation's templates directory, and fails with an
\* I/O error both when no location resolves and when the glob finds no file.
C9_NotFoundAlsoWhenGlobEmpty ==
    Found =>
        /\ tres.status = "ok" => SearchedInOrder
        /\ tres.status = "IOError" <=>
               (NothingResolves \/ (~ NothingResolves /\
                    Matching(ResolveDir(targ, env, fs)) = {}))

\* C9 amended: find_templates searches the argument, then the environment
\* variable, then the installation's templates directory; it fails with an
\* I/O error exactly when no location resolves, and when the glob finds no
\* file in the resolved location it returns an empty list. read_templates,
\* given no list, is what fails on an empty list.
C9_NotFoundOnlyWhenNothingResolves ==
    /\ Found =>
        /\ tres.status = "IOError" <=> NothingResolves
        /\ tres.status = "ok" <=> ~ NothingResolves
        /\ tres.status = "ok" => SearchedInOrder
    /\ tpc = "loaded" =>
        /\ tres.status = "IOError" <=>
               (NothingResolves \/ (~ NothingResolves /\
                    Matching(ResolveDir(targ, env, fs)) = {}))

\* the variable names a directory without a matching file, while the
\* installation's directory and the unused argument's hold one
C9_Witness ==
    /\ Found
    /\ targ = "None"
    /\ env = "/env/templates"
    /\ fs["/env/templates"].exists
    /\ fs["/env/templates"].files = { <<"redrock-", "star", ".fits">> }
    /\ Matching(InstallDir) # {}
    /\ Matching("/data/templates") # {}
    /\ tres = [status |-> "ok", files |-> {}]

====
